---- MODULE Spec2Model ----
(***************************************************************************)
(* Model of the bike-share pipeline (src/src/data_processing.py) and of    *)
(* the report generator (src/src/plots.py).                                *)
(*                                                                         *)
(* A table is a record [columns, index, rows]: the set of column names,    *)
(* the row labels (the pandas index) and the rows, each row a function     *)
(* from column name to cell.  A cell is a record [k, v, s]:                *)
(*   k = "num" : the number v/2 (numbers are kept in half units, so that   *)
(*               the median of two whole numbers is representable),        *)
(*   k = "str" : the text s,                                               *)
(*   k = "nan" : the null marker (NaN / NaT / empty field),                *)
(*   k = "dt"  : a timestamp, v hours after 2011-01-01 00:00:00,           *)
(*   k = "date": a calendar date, v days after 2011-01-01.                 *)
(***************************************************************************)
EXTENDS Integers, Sequences, FiniteSets, TLC

VARIABLES csv, pc, df, artifact, report

vars == <<csv, pc, df, artifact, report>>

-----------------------------------------------------------------------------
(* Cells *)

NaN == [k |-> "nan", v |-> 0, s |-> ""]

Num(x) == [k |-> "num", v |-> x, s |-> ""]

N(i) == Num(2 * i)

Text(t) == [k |-> "str", v |-> 0, s |-> t]

Stamp(h) == [k |-> "dt", v |-> h, s |-> ""]

Date(d) == [k |-> "date", v |-> d, s |-> ""]

IsNull(c) == c.k = "nan"

-----------------------------------------------------------------------------
(* Tables *)

RangeIndex(n) == [i \in 1..n |-> i - 1]

Table(cols, rows) == [columns |-> cols, index |-> RangeIndex(Len(rows)), rows |-> rows]

EmptyTable == Table({}, <<>>)

NRows(t) == Len(t.rows)

Col(t, c) == [i \in 1..NRows(t) |-> t.rows[i][c]]

\* df[c] = values : assignment of a whole column (added when absent)
SetCol(t, c, values) ==
    [t EXCEPT !.columns = t.columns \cup {c},
              !.rows = [i \in 1..NRows(t) |->
                          [d \in t.columns \cup {c} |->
                              IF d = c THEN values[i] ELSE t.rows[i][d]]]]

Project(t, S) ==
    [t EXCEPT !.columns = t.columns \cap S,
              !.rows = [i \in 1..NRows(t) |-> [d \in t.columns \cap S |-> t.rows[i][d]]]]

-----------------------------------------------------------------------------
(* Sequences of integers *)

RECURSIVE Insert(_, _)
Insert(x, s) ==
    IF s = <<>> THEN <<x>>
    ELSE IF x <= Head(s) THEN <<x>> \o s
    ELSE <<Head(s)>> \o Insert(x, Tail(s))

RECURSIVE Sorted(_)
Sorted(s) == IF s = <<>> THEN <<>> ELSE Insert(Head(s), Sorted(Tail(s)))

RECURSIVE Ascending(_)
Ascending(S) ==
    IF S = {} THEN <<>>
    ELSE LET m == CHOOSE x \in S : \A y \in S : x <= y
         IN <<m>> \o Ascending(S \ {m})

-----------------------------------------------------------------------------
(* load_data *)

Unreadable == [readable |-> FALSE, table |-> EmptyTable]

File(t) == [readable |-> TRUE, table |-> t]

-----------------------------------------------------------------------------
(* basic_clean *)

\* c.strip().lower() on the header names that occur in the inputs
StripLower(c) ==
    CASE c = " Datetime" -> "datetime"
      [] c = "TEMP "     -> "temp"
      [] c = "Season"    -> "season"
      [] OTHER           -> c

rename(t) ==
    LET new == {StripLower(c) : c \in t.columns}
        old(n) == CHOOSE c \in t.columns : StripLower(c) = n
    IN [t EXCEPT !.columns = new,
                 !.rows = [i \in 1..NRows(t) |-> [n \in new |-> t.rows[i][old(n)]]]]

\* the timestamp texts that occur in the inputs and the instants they denote
DatetimeText ==
    [x \in {"2011-01-01 05:00:00", "2011-01-01T05:00:00", "2011-01-03 10:00:00",
            "2011-02-01 23:00:00"} |->
        CASE x = "2011-01-01 05:00:00" -> 5
          [] x = "2011-01-01T05:00:00" -> 5
          [] x = "2011-01-03 10:00:00" -> 58
          [] x = "2011-02-01 23:00:00" -> 767]

\* pd.to_datetime(..., errors="coerce") on one cell
to_datetime(c) ==
    CASE c.k = "dt" -> c
      [] c.k = "str" /\ c.s \in DOMAIN DatetimeText -> Stamp(DatetimeText[c.s])
      [] OTHER -> NaN

\* DataFrame.drop_duplicates(): the first occurrence of every row is kept,
\* with the label it had
drop_duplicates(t) ==
    LET keep == Ascending({i \in 1..NRows(t) : \A j \in 1..(i - 1) : t.rows[j] # t.rows[i]})
    IN [t EXCEPT !.index = [n \in 1..Len(keep) |-> t.index[keep[n]]],
                 !.rows = [n \in 1..Len(keep) |-> t.rows[keep[n]]]]

\* DataFrame.reset_index(drop=True)
reset_index(t) == [t EXCEPT !.index = RangeIndex(NRows(t))]

\* basic_clean without reset_index: the surviving rows keep their labels
basic_clean_keeps_labels(t) ==
    LET t1 == rename(t)
        t2 == IF "datetime" \in t1.columns
              THEN SetCol(t1, "datetime",
                          [i \in 1..NRows(t1) |-> to_datetime(t1.rows[i]["datetime"])])
              ELSE t1
    IN drop_duplicates(t2)

basic_clean(t) ==
    LET t1 == rename(t)
        t2 == IF "datetime" \in t1.columns
              THEN SetCol(t1, "datetime",
                          [i \in 1..NRows(t1) |-> to_datetime(t1.rows[i]["datetime"])])
              ELSE t1
    IN reset_index(drop_duplicates(t2))

-----------------------------------------------------------------------------
(* impute_and_cast *)

numeric_cols == <<"temp", "atemp", "humidity", "windspeed", "casual", "registered", "count">>

code_cols == <<"season", "weather", "workingday", "holiday">>

\* the number texts that occur in the inputs and twice the number they denote
NumericText ==
    [x \in {"10", "10.0", "1.5", "2"} |->
        CASE x = "10" -> 20 [] x = "10.0" -> 20 [] x = "1.5" -> 3 [] x = "2" -> 4]

\* pd.to_numeric(..., errors="coerce") on one cell
to_numeric(c) ==
    CASE c.k = "num" -> c
      [] c.k = "str" /\ c.s \in DOMAIN NumericText -> Num(NumericText[c.s])
      [] OTHER -> NaN

NonNull(values) == SelectSeq(values, LAMBDA c : ~IsNull(c))

\* Series.median(): nulls are skipped, NaN when nothing is left
median(values) ==
    LET s == Sorted([i \in 1..Len(NonNull(values)) |-> NonNull(values)[i].v])
        m == Len(s)
    IN IF m = 0 THEN NaN
       ELSE IF m % 2 = 1 THEN Num(s[(m + 1) \div 2])
       ELSE Num((s[m \div 2] + s[m \div 2 + 1]) \div 2)

fillna(c, fill) == IF IsNull(c) THEN fill ELSE c

\* imputation that fills with zero whatever the median is
impute_zero(t, c) ==
    LET t1 == SetCol(t, c, [i \in 1..NRows(t) |-> to_numeric(t.rows[i][c])])
    IN SetCol(t1, c, [i \in 1..NRows(t1) |-> fillna(t1.rows[i][c], Num(0))])

\* lines 52-56 for one numeric column
impute(t, c) ==
    LET t1 == SetCol(t, c, [i \in 1..NRows(t) |-> to_numeric(t.rows[i][c])])
        m == median(Col(t1, c))
        med == IF IsNull(m) THEN Num(0) ELSE m
    IN SetCol(t1, c, [i \in 1..NRows(t1) |-> fillna(t1.rows[i][c], med)])

\* astype(int) truncates towards zero
astype_int(c) == IF c.v >= 0 THEN Num(2 * (c.v \div 2)) ELSE Num(0 - 2 * ((0 - c.v) \div 2))

\* line 61 for one code column
cast(t, c) ==
    SetCol(t, c, [i \in 1..NRows(t) |-> astype_int(fillna(to_numeric(t.rows[i][c]), Num(0)))])

\* the loop of lines 50-56
RECURSIVE impute_each(_, _)
impute_each(t, cols) ==
    IF cols = <<>> THEN t
    ELSE impute_each(IF Head(cols) \in t.columns THEN impute(t, Head(cols)) ELSE t, Tail(cols))

\* the loop of lines 59-61
RECURSIVE cast_each(_, _)
cast_each(t, cols) ==
    IF cols = <<>> THEN t
    ELSE cast_each(IF Head(cols) \in t.columns THEN cast(t, Head(cols)) ELSE t, Tail(cols))

impute_and_cast(t) == cast_each(impute_each(t, numeric_cols), code_cols)

-----------------------------------------------------------------------------
(* feature_engineering *)

DayNames == <<"Monday", "Tuesday", "Wednesday", "Thursday", "Friday", "Saturday", "Sunday">>

\* the .dt accessors (NaT gives a null); 2011-01-01 was a Saturday, and the
\* timestamps of the inputs lie in January and February 2011
dt_hour(c) == IF c.k = "dt" THEN N(c.v % 24) ELSE NaN

Weekday(h) == (5 + (h \div 24)) % 7

dt_weekday(c) == IF c.k = "dt" THEN N(Weekday(c.v)) ELSE NaN

dt_day_name(c) == IF c.k = "dt" THEN Text(DayNames[Weekday(c.v) + 1]) ELSE NaN

dt_month(c) == IF c.k = "dt" THEN N(IF (c.v \div 24) < 31 THEN 1 ELSE 2) ELSE NaN

dt_year(c) == IF c.k = "dt" THEN N(2011) ELSE NaN

dt_date(c) == IF c.k = "dt" THEN Date(c.v \div 24) ELSE NaN

time_columns == {"hour", "day_of_week", "weekday", "month", "year", "date"}

time_part(name, c) ==
    CASE name = "hour" -> dt_hour(c)
      [] name = "day_of_week" -> dt_day_name(c)
      [] name = "weekday" -> dt_weekday(c)
      [] name = "month" -> dt_month(c)
      [] name = "year" -> dt_year(c)
      [] name = "date" -> dt_date(c)

\* lines 67-75: six assignments, each from the datetime column
fe_time(t) ==
    IF "datetime" \in t.columns
    THEN [t EXCEPT !.columns = t.columns \cup time_columns,
                   !.rows = [i \in 1..NRows(t) |->
                               [d \in t.columns \cup time_columns |->
                                   IF d \in time_columns
                                   THEN time_part(d, t.rows[i]["datetime"])
                                   ELSE t.rows[i][d]]]]
    ELSE t

season_map == <<"spring", "summer", "fall", "winter">>

weather_map == <<"clear", "mist/cloudy", "light_precip", "heavy_precip">>

\* Series.map(dict) without the fillna: an unmapped code gives a null label
map_label_no_fill(c, labels) ==
    IF c.k = "num" /\ c.v \in {2 * i : i \in 1..Len(labels)}
    THEN Text(labels[c.v \div 2])
    ELSE NaN

\* Series.map(dict).fillna("unknown") on one cell
map_label(c, labels) ==
    IF c.k = "num" /\ c.v \in {2 * i : i \in 1..Len(labels)}
    THEN Text(labels[c.v \div 2])
    ELSE Text("unknown")

fe_season(t) ==
    IF "season" \in t.columns
    THEN SetCol(t, "season_label",
                [i \in 1..NRows(t) |-> map_label(t.rows[i]["season"], season_map)])
    ELSE t

fe_weather(t) ==
    IF "weather" \in t.columns
    THEN SetCol(t, "weather_label",
                [i \in 1..NRows(t) |-> map_label(t.rows[i]["weather"], weather_map)])
    ELSE t

add(a, b) == IF IsNull(a) \/ IsNull(b) THEN NaN ELSE Num(a.v + b.v)

fe_count(t) ==
    IF "count" \notin t.columns /\ {"registered", "casual"} \subseteq t.columns
    THEN SetCol(t, "count", [i \in 1..NRows(t) |-> add(t.rows[i]["registered"], t.rows[i]["casual"])])
    ELSE t

temp_labels == <<"cold", "mild", "warm", "hot">>

level_labels == <<"low", "medium", "high">>

humidity_bins == <<-1, 30, 60, 100>>

\* pd.cut(values, q, labels) in place of pd.qcut: q bins of equal width
\* between the least and the greatest value
qcut_equal_width(values, labels) ==
    LET q == Len(labels)
        nums == SelectSeq(values, LAMBDA c : c.k = "num")
        s == Sorted([i \in 1..Len(nums) |-> nums[i].v])
        m == Len(s)
        edge(k) == q * s[1] + k * (s[m] - s[1])
        ok == m > 0 /\ s[1] < s[m]
        bin(x) == IF q * x = edge(0) THEN 1
                  ELSE CHOOSE k \in 1..q : edge(k - 1) < q * x /\ q * x <= edge(k)
    IN [ok |-> ok,
        labels |-> IF ok
                   THEN [i \in 1..Len(values) |->
                            IF values[i].k = "num" THEN Text(labels[bin(values[i].v)]) ELSE NaN]
                   ELSE <<>>]

\* pd.qcut(values, q=Len(labels), labels=labels).  The edges are the
\* quantiles k/q of the non-null values with linear interpolation; edge(k)
\* is q times the k-th edge.  Equal edges raise ValueError ("Bin edges must
\* be unique"); otherwise a value x gets the label of the first bin
\* (edge(k-1), edge(k)] that holds it, the lowest edge included.
qcut(values, labels) ==
    LET q == Len(labels)
        nums == SelectSeq(values, LAMBDA c : c.k = "num")
        s == Sorted([i \in 1..Len(nums) |-> nums[i].v])
        m == Len(s)
        edge(k) == LET pos == (m - 1) * k
                       i == pos \div q
                       r == pos % q
                   IN IF r = 0 THEN q * s[i + 1]
                      ELSE q * s[i + 1] + r * (s[i + 2] - s[i + 1])
        ok == m > 0 /\ \A k \in 1..q : edge(k - 1) < edge(k)
        bin(x) == IF q * x = edge(0) THEN 1
                  ELSE CHOOSE k \in 1..q : edge(k - 1) < q * x /\ q * x <= edge(k)
    IN [ok |-> ok,
        labels |-> IF ok
                   THEN [i \in 1..Len(values) |->
                            IF values[i].k = "num" THEN Text(labels[bin(values[i].v)]) ELSE NaN]
                   ELSE <<>>]

\* pd.cut(values, bins=bins, labels=labels): right-closed fixed bins
cut(values, bins, labels) ==
    [i \in 1..Len(values) |->
        LET c == values[i]
            hit == {k \in 1..Len(labels) : 2 * bins[k] < c.v /\ c.v <= 2 * bins[k + 1]}
        IN IF c.k = "num" /\ hit # {} THEN Text(labels[CHOOSE k \in hit : TRUE]) ELSE NaN]

\* the outcome of feature_engineering: the table as mutated so far, and
\* whether an exception left the function
Returned(t) == [df |-> t, raised |-> FALSE]

Raised(t) == [df |-> t, raised |-> TRUE]

\* the binning step without the test for an existing target column
fe_qcut_unguarded(t, source, target, labels) ==
    IF source \in t.columns
    THEN LET r == qcut(Col(t, source), labels)
         IN IF r.ok THEN Returned(SetCol(t, target, r.labels)) ELSE Raised(t)
    ELSE Returned(t)

fe_qcut(t, source, target, labels) ==
    IF source \in t.columns /\ target \notin t.columns
    THEN LET r == qcut(Col(t, source), labels)
         IN IF r.ok THEN Returned(SetCol(t, target, r.labels)) ELSE Raised(t)
    ELSE Returned(t)

fe_temp(t) == fe_qcut(t, "temp", "temp_category", temp_labels)

fe_atemp(t) == fe_qcut(t, "atemp", "atemp_category", temp_labels)

fe_humidity(t) ==
    IF "humidity" \in t.columns /\ "humidity_category" \notin t.columns
    THEN Returned(SetCol(t, "humidity_category", cut(Col(t, "humidity"), humidity_bins, level_labels)))
    ELSE Returned(t)

\* Series.replace(0, value)
replace_zero(c, value) == IF c.k = "num" /\ c.v = 0 THEN value ELSE c

fe_windspeed(t) ==
    IF "windspeed" \in t.columns /\ "windspeed_category" \notin t.columns
    THEN LET med == median(Col(t, "windspeed"))
             t1 == SetCol(t, "windspeed",
                          [i \in 1..NRows(t) |-> replace_zero(t.rows[i]["windspeed"], med)])
             r == qcut(Col(t1, "windspeed"), level_labels)
         IN IF r.ok THEN Returned(SetCol(t1, "windspeed_category", r.labels)) ELSE Raised(t1)
    ELSE Returned(t)

\* a later step runs only when no earlier one raised
then_step(r, step) ==
    IF r.raised THEN r
    ELSE CASE step = "atemp" -> fe_atemp(r.df)
           [] step = "humidity" -> fe_humidity(r.df)
           [] step = "windspeed" -> fe_windspeed(r.df)

feature_engineering(t) ==
    then_step(then_step(then_step(fe_temp(fe_count(fe_weather(fe_season(fe_time(t))))),
        "atemp"), "humidity"), "windspeed")

\* DataFrame.to_csv(output_path, index=False)
to_csv(t) == File(Table(t.columns, t.rows))

-----------------------------------------------------------------------------
(* plots.py *)

\* the outcome of one renderer: the table (plot_hourly_pattern adds a
\* column), the images it saved and whether an exception left it
Drawn(t, figs) == [df |-> t, figs |-> figs, raised |-> FALSE]

Skipped(t) == [df |-> t, figs |-> {}, raised |-> FALSE]

Failed(t) == [df |-> t, figs |-> {}, raised |-> TRUE]

\* sns.boxplot(x=season_col, y=count_col, data=df) raises ValueError when
\* data has no column count_col
plot_seasonal_trends(t) ==
    IF "season_label" \notin t.columns THEN Skipped(t)
    ELSE IF "count" \notin t.columns THEN Failed(t)
    ELSE Drawn(t, {"seasonal_trends.png"})

\* sns.scatterplot (outside the try) raises ValueError when data has no
\* column count_col
plot_temp_vs_count(t) ==
    IF "temp" \notin t.columns THEN Skipped(t)
    ELSE IF "count" \notin t.columns THEN Failed(t)
    ELSE Drawn(t, {"temp_vs_count.png"})

\* df.groupby(hour_col)[count_col] raises KeyError when count_col is missing
plot_hourly_pattern(t) ==
    IF "hour" \notin t.columns /\ "datetime" \notin t.columns THEN Skipped(t)
    ELSE LET t1 == IF "hour" \notin t.columns
                   THEN SetCol(t, "hour", [i \in 1..NRows(t) |-> dt_hour(t.rows[i]["datetime"])])
                   ELSE t
         IN IF "count" \notin t1.columns THEN Failed(t1)
            ELSE Drawn(t1, {"hourly_pattern.png"})

categories == <<"temp_category", "atemp_category", "humidity_category", "windspeed_category">>

CategoryFigure ==
    [c \in {categories[i] : i \in 1..Len(categories)} |->
        CASE c = "temp_category" -> "temp_category_distribution.png"
          [] c = "atemp_category" -> "atemp_category_distribution.png"
          [] c = "humidity_category" -> "humidity_category_distribution.png"
          [] c = "windspeed_category" -> "windspeed_category_distribution.png"]

\* the loop of generate_all over plot_category_counts
plot_category_counts(t) ==
    Drawn(t, {CategoryFigure[c] : c \in t.columns \cap DOMAIN CategoryFigure})

plot_registered_vs_casual(t) ==
    IF {"registered", "casual"} \subseteq t.columns
    THEN Drawn(t, {"registered_vs_casual.png"}
                  \cup IF "date" \in t.columns
                       THEN {"registered_vs_casual_timeseries.png"}
                       ELSE {})
    ELSE Skipped(t)

\* df.select_dtypes(include="number"): the columns read_csv typed as numbers
NumberColumns(t) ==
    {c \in t.columns : NRows(t) > 0 /\ \A i \in 1..NRows(t) : t.rows[i][c].k \in {"num", "nan"}}

plot_correlation_heatmap(t) ==
    IF Cardinality(NumberColumns(t)) < 2 THEN Skipped(t)
    ELSE Drawn(t, {"correlation_heatmap.png"})

renderers == <<"plot_seasonal_trends", "plot_temp_vs_count", "plot_hourly_pattern",
               "plot_category_counts", "plot_registered_vs_casual", "plot_correlation_heatmap">>

Render(name, t) ==
    CASE name = "plot_seasonal_trends" -> plot_seasonal_trends(t)
      [] name = "plot_temp_vs_count" -> plot_temp_vs_count(t)
      [] name = "plot_hourly_pattern" -> plot_hourly_pattern(t)
      [] name = "plot_category_counts" -> plot_category_counts(t)
      [] name = "plot_registered_vs_casual" -> plot_registered_vs_casual(t)
      [] name = "plot_correlation_heatmap" -> plot_correlation_heatmap(t)

NoReport == [status |-> "none", ran |-> <<>>, figures |-> {}]

\* the renderers of lines 135-143, in order, until one raises
RECURSIVE RunFrom(_, _, _)
RunFrom(todo, t, rep) ==
    IF todo = <<>> THEN [rep EXCEPT !.status = "done"]
    ELSE LET o == Render(Head(todo), t)
             rep1 == [rep EXCEPT !.ran = Append(@, Head(todo)), !.figures = @ \cup o.figs]
         IN IF o.raised THEN [rep1 EXCEPT !.status = "aborted"]
            ELSE RunFrom(Tail(todo), o.df, rep1)

\* generate_all: FileNotFoundError without the artifact; read_csv with
\* parse_dates=["datetime"] raises ValueError when the file has no such column
generate_all(file) ==
    IF ~file.readable THEN [NoReport EXCEPT !.status = "not_found"]
    ELSE IF "datetime" \notin file.table.columns THEN [NoReport EXCEPT !.status = "aborted"]
    ELSE LET t == file.table
             t1 == IF "date" \notin t.columns
                   THEN SetCol(t, "date", [i \in 1..NRows(t) |-> dt_date(t.rows[i]["datetime"])])
                   ELSE t
         IN RunFrom(renderers, t1, NoReport)

-----------------------------------------------------------------------------
(* Input files *)

MaxRows == 5

MaxVal == 5

MaxFeelRows == 4

MaxImputeRows == 4

MaxDupRows == 3

MaxCodeRows == 2

MaxCode == 5

Seqs(S, n) == UNION {[1..k -> S] : k \in 0..n}

recognized == {"datetime", "season", "weather", "workingday", "holiday", "temp", "atemp",
               "humidity", "windspeed", "casual", "registered", "count"}

derived == {"hour", "day_of_week", "weekday", "month", "year", "date", "season_label",
            "weather_label", "temp_category", "atemp_category", "humidity_category",
            "windspeed_category"}

Row(station, dt, codes, temps, humidity, windspeed, casual, registered) ==
    [c \in recognized \cup {"station"} |->
        CASE c = "station" -> Text(station)
          [] c = "datetime" -> Text(dt)
          [] c = "season" -> N(codes[1])
          [] c = "weather" -> N(codes[2])
          [] c = "workingday" -> N(codes[3])
          [] c = "holiday" -> N(codes[4])
          [] c = "temp" -> N(temps[1])
          [] c = "atemp" -> N(temps[2])
          [] c = "humidity" -> N(humidity)
          [] c = "windspeed" -> N(windspeed)
          [] c = "casual" -> N(casual)
          [] c = "registered" -> N(registered)
          [] c = "count" -> N(casual + registered)]

\* four rows whose readings are all different
BaseDistinct ==
    Table(recognized \cup {"station"},
          <<Row("A", "2011-01-01 05:00:00", <<1, 1, 0, 0>>, <<10, 14>>, 20, 10, 3, 13),
            Row("A", "2011-01-03 10:00:00", <<2, 2, 1, 0>>, <<20, 24>>, 50, 20, 8, 32),
            Row("A", "2011-02-01 23:00:00", <<3, 3, 1, 0>>, <<30, 33>>, 80, 0, 5, 25),
            Row("A", "not a date", <<5, 4, 1, 1>>, <<40, 39>>, 100, 40, 1, 1)>>)

\* five rows with repeated temperatures and calm hours
BaseTies ==
    Table(recognized \cup {"station"},
          <<Row("A", "2011-01-01 05:00:00", <<1, 1, 0, 0>>, <<10, 10>>, 20, 0, 3, 13),
            Row("A", "2011-01-01 05:00:00", <<1, 2, 0, 0>>, <<10, 10>>, 30, 0, 4, 14),
            Row("A", "2011-01-03 10:00:00", <<1, 1, 1, 0>>, <<10, 12>>, 50, 10, 8, 32),
            Row("A", "2011-01-03 10:00:00", <<1, 3, 1, 0>>, <<20, 22>>, 60, 20, 9, 33),
            Row("A", "2011-02-01 23:00:00", <<2, 1, 1, 0>>, <<30, 33>>, 80, 30, 5, 25)>>)

\* the rows of BaseDistinct in a file that already holds every derived column
WithDerived(t) ==
    Table(t.columns \cup derived,
          [i \in 1..NRows(t) |->
              [c \in t.columns \cup derived |->
                  IF c \in t.columns THEN t.rows[i][c] ELSE Text("stale")]])

Keyed(c, cells) ==
    Table({"instant", c}, [i \in 1..Len(cells) |-> [d \in {"instant", c} |->
                              IF d = "instant" THEN N(i) ELSE cells[i]]])

WholeCells == {N(10 * i) : i \in 0..MaxVal}

ImputeCells == {N(0), N(10), N(20), NaN, Text("--"), Text("10.0")}

CodeCells == {N(i) : i \in -1..MaxCode} \cup {Num(3), Num(-3), NaN, Text("x"), Text("2"), Text("1.5")}

Headers == {{"datetime", "season"}, {" Datetime", "Season"}}

DupRows(H) ==
    {[c \in H |-> IF StripLower(c) = "datetime" THEN Text(d) ELSE s] :
        d \in {"2011-01-01 05:00:00", "2011-01-01T05:00:00", "not a date"},
        s \in {N(1), N(0), Text("x"), NaN}}

-----------------------------------------------------------------------------
(* process and generate_all as steps *)

Start ==
    /\ pc = "start"
    /\ df = EmptyTable
    /\ artifact = Unreadable
    /\ report = NoReport

\* a file with any subset of the recognized columns
InitColumns ==
    /\ Start
    /\ \/ csv = Unreadable
       \/ \E b \in {BaseDistinct, BaseTies}, S \in SUBSET recognized :
             csv = File(Project(b, S \cup {"station"}))

\* a file that already holds any subset of the derived columns, with all the
\* recognized columns, without count, or without datetime and season
InitTargets ==
    /\ Start
    /\ \/ csv = Unreadable
       \/ \E P \in SUBSET derived, D \in {{}, {"count"}, {"datetime", "season"}} :
             csv = File(Project(WithDerived(BaseDistinct), ((recognized \ D) \cup P) \cup {"station"}))

\* a file with one column of temperatures, any whole values
InitValues ==
    /\ Start
    /\ \/ csv = Unreadable
       \/ \E cells \in Seqs(WholeCells, MaxRows) : csv = File(Keyed("temp", cells))
       \/ \E cells \in Seqs(WholeCells, MaxFeelRows) : csv = File(Keyed("atemp", cells))

\* a file with a column of wind speeds, calm hours included
InitWind ==
    /\ Start
    /\ \/ csv = Unreadable
       \/ \E cells \in Seqs(WholeCells, MaxRows) : csv = File(Keyed("windspeed", cells))

\* a file with one numeric column with empty and unparseable fields
InitImpute ==
    /\ Start
    /\ \/ csv = Unreadable
       \/ \E n \in 1..Len(numeric_cols), cells \in Seqs(ImputeCells, MaxImputeRows) :
             csv = File(Keyed(numeric_cols[n], cells))

\* a file with one column of codes, in and out of range
InitCodes ==
    /\ Start
    /\ \/ csv = Unreadable
       \/ \E n \in 1..Len(code_cols), cells \in Seqs(CodeCells, MaxCodeRows) :
             csv = File(Keyed(code_cols[n], cells))

\* a file with repeated rows, under either spelling of the header
InitDup ==
    /\ Start
    /\ \/ csv = Unreadable
       \/ \E H \in Headers : \E rows \in Seqs(DupRows(H), MaxDupRows) :
             csv = File(Table(H, rows))

Init ==
    InitColumns \/ InitTargets \/ InitValues \/ InitWind \/ InitImpute \/ InitCodes \/ InitDup

\* line 113: df = load_data(...); an unreadable source raises
ProcessLoad ==
    /\ pc = "start"
    /\ IF csv.readable
       THEN df' = csv.table /\ pc' = "loaded"
       ELSE df' = df /\ pc' = "load_failed"
    /\ UNCHANGED <<csv, artifact, report>>

\* line 114
ProcessClean ==
    /\ pc = "loaded"
    /\ df' = basic_clean(df)
    /\ pc' = "cleaned"
    /\ UNCHANGED <<csv, artifact, report>>

\* line 115
ProcessImpute ==
    /\ pc = "cleaned"
    /\ df' = impute_and_cast(df)
    /\ pc' = "imputed"
    /\ UNCHANGED <<csv, artifact, report>>

\* line 116: an exception in feature_engineering ends process
ProcessFeatures ==
    /\ pc = "imputed"
    /\ LET r == feature_engineering(df)
       IN /\ df' = r.df
          /\ pc' = IF r.raised THEN "failed" ELSE "engineered"
    /\ UNCHANGED <<csv, artifact, report>>

\* lines 117-121
ProcessPersist ==
    /\ pc = "engineered"
    /\ artifact' = to_csv(df)
    /\ pc' = "done"
    /\ UNCHANGED <<csv, df, report>>

\* a run of plots.py, after a run of the pipeline has ended
Report ==
    /\ pc \in {"load_failed", "failed", "done"}
    /\ report' = generate_all(artifact)
    /\ UNCHANGED <<csv, pc, df, artifact>>

Next ==
    \/ ProcessLoad
    \/ ProcessClean
    \/ ProcessImpute
    \/ ProcessFeatures
    \/ ProcessPersist
    \/ Report

Spec == Init /\ [][Next]_vars

SpecColumns == InitColumns /\ [][Next]_vars

SpecTargets == InitTargets /\ [][Next]_vars

SpecValues == InitValues /\ [][Next]_vars

SpecWind == InitWind /\ [][Next]_vars

SpecImpute == InitImpute /\ [][Next]_vars

SpecCodes == InitCodes /\ [][Next]_vars

SpecDup == InitDup /\ [][Next]_vars

-----------------------------------------------------------------------------
(* Properties *)

FeLeft == pc \in {"engineered", "failed", "done"}

FeStep == pc = "imputed" /\ pc' # "imputed"

Rows(t) == {t.rows[i] : i \in 1..NRows(t)}

\* the file as basic_clean sees it before it drops rows: header names
\* normalised, timestamps parsed
Parsed(t) ==
    IF "datetime" \in rename(t).columns
    THEN SetCol(rename(t), "datetime",
                [i \in 1..NRows(t) |-> to_datetime(rename(t).rows[i]["datetime"])])
    ELSE rename(t)

First(t, r) == CHOOSE i \in 1..NRows(t) : t.rows[i] = r /\ \A j \in 1..(i - 1) : t.rows[j] # r

\* C6: after basic_clean the table holds every distinct row of the input
\* (as parsed) exactly once, in the order of first occurrence, and the row
\* labels are 0, 1, ..., rows-1.
C6_Deduplicated ==
    pc = "cleaned" =>
        LET inp == Parsed(csv.table)
        IN /\ Rows(df) = Rows(inp)
           /\ \A i, j \in 1..NRows(df) : i < j =>
                 /\ df.rows[i] # df.rows[j]
                 /\ First(inp, df.rows[i]) < First(inp, df.rows[j])
           /\ \A i \in 1..NRows(df) : df.index[i] = i - 1

C6_Witness ==
    /\ pc = "cleaned"
    /\ NRows(csv.table) = 3
    /\ csv.table.rows[1] = csv.table.rows[2]
    /\ csv.table.rows[3] # csv.table.rows[1]
    /\ NRows(df) = 2
    /\ df.index = <<0, 1>>

SeasonName(c) ==
    CASE c = N(1) -> "spring" [] c = N(2) -> "summer" [] c = N(3) -> "fall"
      [] c = N(4) -> "winter" [] OTHER -> "unknown"

WeatherName(c) ==
    CASE c = N(1) -> "clear" [] c = N(2) -> "mist/cloudy" [] c = N(3) -> "light_precip"
      [] c = N(4) -> "heavy_precip" [] OTHER -> "unknown"

Unparseable(c) == c.k = "nan" \/ (c.k = "str" /\ c.s \notin DOMAIN NumericText)

\* the rows of the file and of the table that carry the same record number
SameRecord(i, j) ==
    /\ "instant" \in csv.table.columns
    /\ i \in 1..NRows(df) /\ j \in 1..NRows(csv.table)
    /\ df.rows[i]["instant"] = csv.table.rows[j]["instant"]

\* C7: once feature_engineering has run on the imputed table, every row's
\* season_label is spring/summer/fall/winter for the codes 1/2/3/4 and
\* "unknown" for any other code, an unparseable or empty code having become
\* 0; likewise weather_label; the labels are there, never null, also when a
\* later step of feature_engineering raised.
C7_Labels ==
    FeLeft =>
        /\ "season" \in df.columns =>
              /\ "season_label" \in df.columns
              /\ \A i \in 1..NRows(df) :
                    df.rows[i]["season_label"] = Text(SeasonName(df.rows[i]["season"]))
              /\ \A i \in 1..NRows(df), j \in 1..NRows(csv.table) :
                    SameRecord(i, j) /\ Unparseable(csv.table.rows[j]["season"]) =>
                        /\ df.rows[i]["season"] = N(0)
                        /\ df.rows[i]["season_label"] = Text("unknown")
        /\ "weather" \in df.columns =>
              /\ "weather_label" \in df.columns
              /\ \A i \in 1..NRows(df) :
                    df.rows[i]["weather_label"] = Text(WeatherName(df.rows[i]["weather"]))
              /\ \A i \in 1..NRows(df), j \in 1..NRows(csv.table) :
                    SameRecord(i, j) /\ Unparseable(csv.table.rows[j]["weather"]) =>
                        /\ df.rows[i]["weather"] = N(0)
                        /\ df.rows[i]["weather_label"] = Text("unknown")

C7_Witness ==
    /\ pc = "done"
    /\ "season" \in df.columns
    /\ NRows(df) = 2
    /\ csv.table.rows[1]["season"] = N(5)
    /\ csv.table.rows[2]["season"] = Text("x")
    /\ df.rows[1]["season_label"] = Text("unknown")
    /\ df.rows[2]["season_label"] = Text("unknown")

\* how many entries of a column are null or unparseable, or are the cell m
Missing(values) == Cardinality({i \in 1..Len(values) : Unparseable(values[i])})

Equal(values, m) == Cardinality({i \in 1..Len(values) : to_numeric(values[i]) = m})

ImputeStep == pc = "cleaned" /\ pc' = "imputed"

Numeric(values) == [i \in 1..Len(values) |-> to_numeric(values[i])]

KeepsPresent(before, after) ==
    /\ \A i \in 1..Len(after) : ~IsNull(after[i])
    /\ \A i \in 1..Len(before) : ~Unparseable(before[i]) => after[i] = to_numeric(before[i])
    /\ (\A i \in 1..Len(before) : Unparseable(before[i])) => \A i \in 1..Len(after) : after[i] = N(0)

\* C5 as claimed: impute_and_cast leaves no null in a numeric column, keeps
\* the entries that were present, turns an all-null column into zeros, and
\* leaves exactly k entries equal to the median m of the present entries,
\* k the number of null or unparseable entries.
C5_ExactlyK ==
    [][ImputeStep =>
        \A n \in 1..Len(numeric_cols) :
            numeric_cols[n] \in df.columns =>
                LET before == Col(df, numeric_cols[n])
                    after == Col(df', numeric_cols[n])
                    m == median(Numeric(before))
                IN /\ KeepsPresent(before, after)
                   /\ ~IsNull(m) =>
                         Equal(after, m) = Missing(before)]_vars

\* C5 as amended: impute_and_cast leaves no null in a numeric column, keeps
\* the entries that were present, turns an all-null column into zeros, and
\* every entry that was null or unparseable becomes the median m of the
\* present entries, so that the entries equal to m are the k filled ones
\* and the present entries that already were m.
C5_FilledWithMedian ==
    [][ImputeStep =>
        \A n \in 1..Len(numeric_cols) :
            numeric_cols[n] \in df.columns =>
                LET before == Col(df, numeric_cols[n])
                    after == Col(df', numeric_cols[n])
                    m == median(Numeric(before))
                IN /\ KeepsPresent(before, after)
                   /\ ~IsNull(m) =>
                         /\ \A i \in 1..Len(before) : Unparseable(before[i]) => after[i] = m
                         /\ Equal(after, m) = Missing(before) + Equal(before, m)]_vars

C5_Witness ==
    /\ pc = "imputed"
    /\ "humidity" \in df.columns
    /\ Col(csv.table, "humidity") = <<N(10), NaN, N(20), Text("--")>>
    /\ Col(df, "humidity") = <<N(10), Num(30), N(20), Num(30)>>

Guarded == {"count", "temp_category", "atemp_category", "humidity_category", "windspeed_category"}

Unchanged(target) == Col(df', target) = Col(df, target)

\* C3 as claimed: feature_engineering leaves every derived column that is
\* already in the table as it was.
C3_NeverOverwrites ==
    [][FeStep => \A target \in (derived \cup {"count"}) \cap df.columns : Unchanged(target)]_vars

SourceOf(target) ==
    CASE target \in {"hour", "day_of_week", "weekday", "month", "year", "date"} -> {"datetime"}
      [] target = "season_label" -> {"season"}
      [] target = "weather_label" -> {"weather"}
      [] target = "count" -> {"registered", "casual"}
      [] target = "temp_category" -> {"temp"}
      [] target = "atemp_category" -> {"atemp"}
      [] target = "humidity_category" -> {"humidity"}
      [] target = "windspeed_category" -> {"windspeed"}

Recomputed(target, row) ==
    CASE target = "hour" -> dt_hour(row["datetime"])
      [] target = "day_of_week" -> dt_day_name(row["datetime"])
      [] target = "weekday" -> dt_weekday(row["datetime"])
      [] target = "month" -> dt_month(row["datetime"])
      [] target = "year" -> dt_year(row["datetime"])
      [] target = "date" -> dt_date(row["datetime"])
      [] target = "season_label" -> Text(SeasonName(row["season"]))
      [] target = "weather_label" -> Text(WeatherName(row["weather"]))

\* C3 as amended: feature_engineering leaves count, temp_category,
\* atemp_category, humidity_category and windspeed_category as they were
\* when they are already in the table; hour, day_of_week, weekday, month,
\* year, date, season_label and weather_label are written again from their
\* source column whenever that column is there, and left as they were only
\* when it is not.
C3_GuardedOnly ==
    [][FeStep =>
        /\ \A target \in Guarded \cap df.columns : Unchanged(target)
        /\ \A target \in (derived \ Guarded) \cap df.columns :
              IF SourceOf(target) \subseteq df.columns
              THEN \A i \in 1..NRows(df) : df'.rows[i][target] = Recomputed(target, df.rows[i])
              ELSE Unchanged(target)]_vars

C3_Witness ==
    /\ pc = "engineered"
    /\ {"datetime", "temp", "hour", "temp_category", "humidity_category"} \subseteq csv.table.columns
    /\ \A i \in 1..NRows(df) : df.rows[i]["temp_category"] = Text("stale")
    /\ \A i \in 1..NRows(df) : df.rows[i]["humidity_category"] = Text("stale")
    /\ df.rows[1]["hour"] = N(5)

CategoryOf(c) == IF c = "temp" THEN "temp_category" ELSE "atemp_category"

Rank(label) == CHOOSE k \in 1..Len(temp_labels) : Text(temp_labels[k]) = label

\* every row has one of the four labels, in the order of the values, and
\* every label has n/4 rows give or take one
Quartiles(c) ==
    LET target == CategoryOf(c)
        n == NRows(df)
    IN /\ target \in df.columns
       /\ \A i \in 1..n : df.rows[i][target] \in {Text(temp_labels[k]) : k \in 1..Len(temp_labels)}
       /\ \A i, j \in 1..n :
             df.rows[i][c].v <= df.rows[j][c].v =>
                 Rank(df.rows[i][target]) <= Rank(df.rows[j][target])
       /\ \A k \in 1..Len(temp_labels) :
             LET rows == Cardinality({i \in 1..n : df.rows[i][target] = Text(temp_labels[k])})
             IN 4 * rows - n \in -4..4

ToBin(c) == c \in df.columns /\ CategoryOf(c) \notin rename(csv.table).columns

PairwiseDistinct(values) ==
    \A i, j \in 1..Len(values) : i # j => values[i] # values[j]

IsPartOf(b) == csv.readable /\ csv.table = Project(b, csv.table.columns)

Whole == CHOOSE b \in {BaseDistinct, BaseTies} : IsPartOf(b)

\* C1: for a file with any subset S of the recognized columns (and no
\* derived column), the pipeline does not raise, and the persisted table
\* has a derived column exactly when its source columns are in S, with the
\* values it has when all the recognized columns are supplied.
C1_AnySubset ==
    (\E b \in {BaseDistinct, BaseTies} : IsPartOf(b)) /\ csv.table.columns \cap derived = {} =>
        /\ pc # "failed"
        /\ pc = "done" =>
              LET S == csv.table.columns \cap recognized
                  out == artifact.table
                  all == feature_engineering(impute_and_cast(basic_clean(Whole)))
              IN /\ \A d \in derived :
                       IF SourceOf(d) \subseteq S
                       THEN d \in out.columns /\ (~all.raised => Col(out, d) = Col(all.df, d))
                       ELSE d \notin out.columns
                 /\ "count" \in out.columns <=> ("count" \in S \/ SourceOf("count") \subseteq S)

\* C2: in process only load_data raises: whatever table load_data returned,
\* basic_clean, impute_and_cast and feature_engineering return, the
\* quantile binning of temp, atemp and windspeed included.
C2_OnlyLoadRaises == pc = "failed" => ~csv.readable

LevelNames == {Text(level_labels[k]) : k \in 1..Len(level_labels)}

\* C4: for a windspeed column, feature_engineering replaces every zero by
\* the median the column had and then labels every row low, medium or high;
\* the column 0, 0, 10, 20, 30 becomes 10, 10, 10, 20, 30 and is binned.
C4_ZerosThenBins ==
    [][/\ FeStep
       /\ "windspeed" \in df.columns
       /\ df.columns \cap {"windspeed_category", "temp", "atemp"} = {}
       => LET before == Col(df, "windspeed")
              m == median(before)
          IN /\ Col(df', "windspeed") =
                    [i \in 1..Len(before) |-> IF before[i] = N(0) THEN m ELSE before[i]]
             /\ pc' = "engineered"
             /\ "windspeed_category" \in df'.columns
             /\ \A i \in 1..NRows(df') : df'.rows[i]["windspeed_category"] \in LevelNames
             /\ before = <<N(0), N(0), N(10), N(20), N(30)>> =>
                   Col(df', "windspeed") = <<N(10), N(10), N(10), N(20), N(30)>>]_vars

\* the images a renderer may write only when its columns are in the file
Needs ==
    [f \in {"seasonal_trends.png", "temp_vs_count.png", "hourly_pattern.png",
            "registered_vs_casual.png"} |->
        CASE f = "seasonal_trends.png" -> {"season_label", "count"}
          [] f = "temp_vs_count.png" -> {"temp", "count"}
          [] f = "hourly_pattern.png" -> {"count"}
          [] f = "registered_vs_casual.png" -> {"registered", "casual"}]

\* C8: a run of generate_all over an existing artifact never aborts for a
\* missing column: every renderer runs, in order, and a renderer whose
\* column is missing writes no image.
C8_NeverAborts ==
    report.status \in {"done", "aborted"} =>
        /\ report.status = "done"
        /\ report.ran = renderers
        /\ \A f \in DOMAIN Needs :
              ~(Needs[f] \subseteq artifact.table.columns) => f \notin report.figures
        /\ {"hour", "datetime"} \cap artifact.table.columns = {} =>
              "hourly_pattern.png" \notin report.figures

\* C10: the table that process persists has no two rows equal in all
\* fields.
C10_NoEqualRows ==
    pc = "done" =>
        \A i, j \in 1..NRows(artifact.table) :
            i # j => artifact.table.rows[i] # artifact.table.rows[j]

====
